---- MODULE Spec2Model ----
(***************************************************************************)
(* Model of the image optimisation pipeline (.github/scripts/              *)
(* optimize-images.js, kept as src/unnamed/part_000) and of the gallery    *)
(* page that shows what the pipeline made (src/script.js).                 *)
(*                                                                         *)
(* A path is a sequence of tokens: directory and file-name segments, the   *)
(* separator tokens "/" and "\\", and an extension token such as ".png".   *)
(* The file system is a function from written output paths to what was     *)
(* written there.                                                          *)
(***************************************************************************)
EXTENDS Integers, Sequences, FiniteSets, TLC

\* ---------------------------------------------------------------- bounds
\* Largest number of files the scanned source tree holds.
MaxFiles == 2
\* Number of clock ticks observed while one ffmpeg subprocess runs.
MaxTicks == 2

\* ------------------------------------------------------------- constants
MAX_FFMPEG_MS == 90000
\* One clock tick of the model is one full budget of wall-clock time.
TickMs == MAX_FFMPEG_MS

srcDir == "images"
outDir == "images-optimized"
thumbDir == "images-thumbs"

NULL == "null"

\* ------------------------------------------------------ the source tree
\* The files a source tree may hold, as directory segments and a name.
\* x.png and sub/x.jpg share a base name; y.GIF has an upper-case extension;
\* notes.txt is no candidate.
TreeFiles ==
    { [dirs |-> <<"images">>,        name |-> <<"x", ".png">>],
      [dirs |-> <<"images", "sub">>, name |-> <<"x", ".jpg">>],
      [dirs |-> <<"images">>,        name |-> <<"x", ".gif">>],
      [dirs |-> <<"images">>,        name |-> <<"y", ".GIF">>],
      [dirs |-> <<"images">>,        name |-> <<"notes", ".txt">>] }

RECURSIVE JoinSegs(_, _)
JoinSegs(segs, s) ==
    IF Len(segs) = 0 THEN <<>>
    ELSE <<Head(segs), s>> \o JoinSegs(Tail(segs), s)

\* The path string the platform gives a file of the tree.
OsPath(f, s) == JoinSegs(f.dirs, s) \o f.name

\* Every order in which a tree of at most MaxFiles files can be walked.
Trees(s) ==
    LET P == { OsPath(f, s) : f \in TreeFiles }
    IN  UNION { { t \in [1..n -> P] : \A i, j \in 1..n : t[i] = t[j] => i = j }
                : n \in 0..MaxFiles }

\* ------------------------------------------------------- path functions
toLowerCase(t) ==
    CASE t \in {".PNG", ".Png"} -> ".png"
      [] t = ".JPG" -> ".jpg"
      [] t = ".JPEG" -> ".jpeg"
      [] t = ".WEBP" -> ".webp"
      [] t \in {".GIF", ".Gif"} -> ".gif"
      [] t = ".TXT" -> ".txt"
      [] t = ".PNGpng" -> ".pngpng"
      [] OTHER -> t

IsExtToken(t) ==
    t \in {".png", ".PNG", ".Png", ".jpg", ".JPG", ".jpeg", ".JPEG", ".webp",
           ".WEBP", ".gif", ".GIF", ".Gif", ".txt", ".TXT", ".svg",
           ".pngpng", ".PNGpng", ".gifjpg"}

\* path.extname
extname(p) ==
    IF Len(p) > 0 /\ IsExtToken(p[Len(p)]) THEN p[Len(p)] ELSE ""

IsSepToken(t) == t \in {"/", "\\"}

RECURSIVE LastSegment(_)
LastSegment(p) ==
    IF \E i \in 1..Len(p) : IsSepToken(p[i])
    THEN LastSegment(Tail(p))
    ELSE p

\* path.basename(p, ext): the last segment, without a trailing ext (compared
\* case-sensitively).
basename(p, ext) ==
    LET seg == LastSegment(p)
    IN  IF Len(seg) > 1 /\ seg[Len(seg)] = ext
        THEN SubSeq(seg, 1, Len(seg) - 1)
        ELSE seg

\* path.join(dir, name) with the platform separator s.
join(dir, name, s) == <<dir, s>> \o name

\* path.relative(".", p): the paths of the run are already relative to the
\* working directory and normalised, and come back as they are.
relative(p) == p

\* A replace that is left out: the path keeps the separators of the platform.
replaceBackslash_LeftOut(p) == p

\* .replace(/\\/g, "/")
replaceBackslash(p) == [i \in 1..Len(p) |-> IF p[i] = "\\" THEN "/" ELSE p[i]]

PatternExts == {".jpg", ".jpeg", ".png", ".webp", ".gif"}

\* A lower-cased extension cut into the pieces a pattern alternative can
\* match one at a time.
ExtPieces(e) ==
    CASE e = "" -> <<>>
      [] e = ".pngpng" -> <<".png", ".png">>
      [] e = ".gifjpg" -> <<".gif", ".jpg">>
      [] OTHER -> <<e>>

\* The extglob +(a|b|...): one or more of the alternatives, one after another.
PlusMatches(e) ==
    /\ Len(ExtPieces(e)) >= 1
    /\ \A i \in 1..Len(ExtPieces(e)) : ExtPieces(e)[i] \in PatternExts

\* A segment whose name starts with a dot: * and ** do not match it.
IsDotToken(t) == t \in {".h", ".cache"}

\* glob(pattern, { nocase: true })
MatchesPattern(p) ==
    /\ Len(p) > 0
    /\ p[1] = srcDir
    /\ \A i \in 1..Len(p) : ~IsDotToken(p[i])
    /\ PlusMatches(toLowerCase(extname(p)))

glob(t) == SelectSeq(t, MatchesPattern)

IsGif(p) == toLowerCase(extname(p)) = ".gif"
IsNotGif(p) == ~IsGif(p)

gifsOf(fs) == SelectSeq(fs, IsGif)
staticsOf(fs) == SelectSeq(fs, IsNotGif)

\* The two halves spread in the other order.
OrderedFiles_GifsFirst(fs) == gifsOf(fs) \o staticsOf(fs)

\* const orderedFiles = [...statics, ...gifs]
OrderedFiles(fs) == staticsOf(fs) \o gifsOf(fs)

\* const base = path.basename(file, ext) with ext lower-cased
baseOf(file) == basename(file, toLowerCase(extname(file)))

\* ------------------------------------------------------------ the state
VARIABLES
    sep,           \* path.sep of the platform the run is on
    ffmpegPresent, \* whether an ffmpeg binary is in PATH
    tree,          \* the source tree, in the order glob walks it
    files,         \* const files
    orderedFiles,  \* const orderedFiles
    idx,           \* position of the for-of loop in orderedFiles
    pc,            \* where the script is
    proc,          \* the ffmpeg subprocess spawnSync waits for
    ticks,         \* clock ticks since that subprocess was spawned
    inflight,      \* sharp toFile() promises not yet settled
    disk,          \* the output directories: path -> what was written
    indexData,     \* const indexData
    indexFile,     \* the content of index.json
    hist,          \* every encode that has ended, with its result
    calls,         \* every ffmpeg encode runCmd was entered for, in order
    cFile,         \* classification: the path that is classified
    cClass,        \* classification: what the script makes of it
    indexJson,     \* page: the index.json the fetch gives
    supportsIO,    \* page: whether the browser has IntersectionObserver
    page,          \* page: "loading", "ready" or "error"
    allItems,      \* page: let allItems
    filteredItems, \* page: let filteredItems
    selectedYear,  \* page: let selectedYear
    yearOptions,   \* page: the values of the options of the year menu
    currentIndex,  \* page: let currentIndex
    cards,         \* page: the media of the cards of the gallery
    lightbox,      \* page: the lightbox element
    modalOpen,     \* page: class "modal-open" of the document element
    listeners,     \* page: the lightbox's click/keydown/touch listeners
    lastActiveEl,  \* page: let lastActiveEl
    activeEl,      \* page: document.activeElement
    openedFrom,    \* page: the element focused when the lightbox came up
    btn,           \* copy: textContent and disabled of a Copy URL button
    writes,        \* copy: clipboard writes not yet settled
    timers,        \* copy: prev of every toast timer not yet fired
    clicks         \* copy: clicks on the button so far

\* The state of a run of the script.
runVars == <<sep, ffmpegPresent, tree, files, orderedFiles, idx, pc, proc,
             ticks, inflight, disk, indexData, indexFile, hist, calls>>

\* The state of the classification of one path.
classVars == <<cFile, cClass>>

\* The state of the gallery page.
pageVars == <<indexJson, supportsIO, page, allItems, filteredItems,
              selectedYear, yearOptions, currentIndex, cards, lightbox,
              modalOpen, listeners, lastActiveEl, activeEl, openedFrom>>

\* The state of one Copy URL button.
copyVars == <<btn, writes, timers, clicks>>

vars == <<runVars, classVars, pageVars, copyVars>>

\* What a file of the output directories holds: the asset it was made from
\* and whether the write ran to its end.
Written(d, p, src, complete) ==
    [q \in (DOMAIN d) \cup {p} |->
        IF q = p THEN [src |-> src, complete |-> complete] ELSE d[q]]

\* index.json: missing, or holding the JSON text of a list of entries.
NoFile == [exists |-> FALSE, content |-> <<>>]
FileWith(data) == [exists |-> TRUE, content |-> data]

\* ------------------------------------------------------------- spawnSync
\* What spawnSync("ffmpeg", ...) returns: the exit status, or null with the
\* output streams null when the binary cannot be spawned (ENOENT), or null
\* with the streams kept when a signal ended the process.
Exited(code) == [status |-> code, stdout |-> "text", stderr |-> "text"]
Killed == [status |-> NULL, stdout |-> "text", stderr |-> "text"]
Enoent == [status |-> NULL, stdout |-> NULL, stderr |-> NULL]

SpawnResults ==
    IF ffmpegPresent THEN {Exited("0"), Exited("1"), Killed} ELSE {Enoent}

\* ok computed as !res.status: a null status counts as success.
runCmd_FalsyStatus(res) ==
    [ok |-> res.status \in {"0", NULL}, stdout |-> res.stdout,
     stderr |-> res.stderr, code |-> res.status]

\* function runCmd(cmd, args): a third argument is not a parameter of it.
runCmd(res) ==
    [ok |-> res.status = "0", stdout |-> res.stdout, stderr |-> res.stderr,
     code |-> res.status]

\* The subprocess spawnSync starts: one that will exit, one that never does,
\* or none when the binary is missing.
Spawned == IF ffmpegPresent THEN {"running", "hung"} ELSE {"enoent"}

\* --------------------------------------------------------------- outputs
optimizedWebM(file) == join(outDir, baseOf(file) \o <<".webm">>, sep)
thumbWebM(file) == join(thumbDir, baseOf(file) \o <<".webm">>, sep)
fallbackGif(file) == join(outDir, baseOf(file) \o <<".gif">>, sep)
optimizedWebP(file) == join(outDir, baseOf(file) \o <<".webp">>, sep)
optimizedJPG(file) == join(outDir, baseOf(file) \o <<".jpg">>, sep)
thumbWebP(file) == join(thumbDir, baseOf(file) \o <<".webp">>, sep)
thumbJPG(file) == join(thumbDir, baseOf(file) \o <<".jpg">>, sep)

Portable(p) == replaceBackslash(relative(p))

webmEntry(file) ==
    [original  |-> Portable(file),
     optimized |-> [webm |-> Portable(optimizedWebM(file))],
     thumbnail |-> [webm |-> Portable(thumbWebM(file))],
     format    |-> "webm"]

imageEntry(file) ==
    [original  |-> Portable(file),
     optimized |-> [webp |-> Portable(optimizedWebP(file)),
                    jpg  |-> Portable(optimizedJPG(file))],
     thumbnail |-> [webp |-> Portable(thumbWebP(file)),
                    jpg  |-> Portable(thumbJPG(file))],
     format    |-> "image"]

Encode(file, step, out) == [file |-> file, step |-> step, out |-> out]

fullPair(file) ==
    { Encode(file, "full.webp", optimizedWebP(file)),
      Encode(file, "full.jpg", optimizedJPG(file)) }

thumbPair(file) ==
    { Encode(file, "thumb.webp", thumbWebP(file)),
      Encode(file, "thumb.jpg", thumbJPG(file)) }

Ended(file, step, ok) == [file |-> file, step |-> step, ok |-> ok]

\* ================================================================ the page
(***************************************************************************)
(* Model of the gallery page (src/script.js). A string of the page is a    *)
(* sequence of tokens: single characters where the code looks at           *)
(* characters, and runs of letters elsewhere. The empty string is <<>>.    *)
(***************************************************************************)
\* ---------------------------------------------------------------- bounds
\* Largest number of entries of the index.json the page fetches.
MaxItems == 2
\* Largest number of clicks on one Copy URL button.
MaxClicks == 5

\* ------------------------------------------------------------ JavaScript
JsNull == <<"null">>
Undefined == <<"undefined">>
ALL == <<"A", "L", "L">>

IsDigit(c) == c \in {"0", "1", "2", "3", "4", "5", "6", "7", "8", "9"}

\* a ?? b
Coalesce(a, b) == IF a \in {JsNull, Undefined} THEN b ELSE a

\* Boolean(a) of a string, null or undefined
Truthy(a) == a \notin {JsNull, Undefined, <<>>}

\* obj?.[k] of an object given as a function from its keys
Get(obj, k) == IF k \in DOMAIN obj THEN obj[k] ELSE Undefined

\* The place of a token in the collation order localeCompare uses:
\* punctuation, then digits, then letters.
CollationRank(t) ==
    CASE t = "_" -> 1 [] t = "-" -> 2 [] t = "." -> 3 [] t = "/" -> 4
      [] t = "0" -> 10 [] t = "1" -> 11 [] t = "2" -> 12 [] t = "3" -> 13
      [] t = "4" -> 14 [] t = "5" -> 15 [] t = "6" -> 16 [] t = "7" -> 17
      [] t = "8" -> 18 [] t = "9" -> 19
      [] t = "a" -> 30 [] t = "b" -> 31 [] t = "c" -> 32 [] t = "gif" -> 33
      [] t = "images" -> 34 [] t = "jpg" -> 35 [] t = "png" -> 36
      [] OTHER -> 40

\* a.localeCompare(b) < 0
RECURSIVE ComesBefore(_, _)
ComesBefore(a, b) ==
    IF Len(b) = 0 THEN FALSE
    ELSE IF Len(a) = 0 THEN TRUE
    ELSE IF CollationRank(Head(a)) # CollationRank(Head(b))
    THEN CollationRank(Head(a)) < CollationRank(Head(b))
    ELSE ComesBefore(Tail(a), Tail(b))

\* String(p).split("/").pop() || ""
RECURSIVE AfterLastSlash(_)
AfterLastSlash(p) ==
    IF \E i \in 1..Len(p) : p[i] = "/" THEN AfterLastSlash(Tail(p)) ELSE p

pageBasename(p) == AfterLastSlash(p)

\* name.match(/^(\d{4})[-_.]/) and m?.[1] || null
yearFromItem(item) ==
    LET name == pageBasename(Coalesce(Get(item, "original"), <<>>))
    IN  IF /\ Len(name) >= 5
           /\ \A i \in 1..4 : IsDigit(name[i])
           /\ name[5] \in {"-", "_", "."}
        THEN SubSeq(name, 1, 4)
        ELSE JsNull

\* Number(y) of a string of digits
DigitValue(c) ==
    CASE c = "0" -> 0 [] c = "1" -> 1 [] c = "2" -> 2 [] c = "3" -> 3
      [] c = "4" -> 4 [] c = "5" -> 5 [] c = "6" -> 6 [] c = "7" -> 7
      [] c = "8" -> 8 [] OTHER -> 9

RECURSIVE Number(_)
Number(y) ==
    IF Len(y) = 0 THEN 0
    ELSE 10 * Number(SubSeq(y, 1, Len(y) - 1)) + DigitValue(y[Len(y)])

\* -------------------------------------------------------- manifest entries
\* A path of an output directory for the file name of an original.
VariantPath(original, dir, ext) ==
    LET name == AfterLastSlash(original)
        stem == IF Len(name) >= 2 /\ name[Len(name) - 1] = "."
                THEN SubSeq(name, 1, Len(name) - 2)
                ELSE name
    IN  <<dir, "/">> \o stem \o <<".", ext>>

\* An entry as the pipeline writes it for a static image.
ImageItem(original) ==
    [original  |-> original,
     optimized |-> [webp |-> VariantPath(original, "images-optimized", "webp"),
                    jpg  |-> VariantPath(original, "images-optimized", "jpg")],
     thumbnail |-> [webp |-> VariantPath(original, "images-thumbs", "webp"),
                    jpg  |-> VariantPath(original, "images-thumbs", "jpg")],
     format    |-> "image"]

\* An entry as the pipeline writes it for an animated image.
WebmItem(original) ==
    [original  |-> original,
     optimized |-> [webm |-> VariantPath(original, "images-optimized", "webm")],
     thumbnail |-> [webm |-> VariantPath(original, "images-thumbs", "webm")],
     format    |-> "webm"]

\* The originals of the entries the year filter is tried on, each cut into
\* its directory, its leading run of digits, the token after that run and
\* the rest of the file name.
YearAssets ==
    { [dir |-> <<"images", "/">>, digits |-> <<"2", "0", "2", "3">>,
       mark |-> <<"-">>, rest |-> <<"a", ".", "jpg">>],
      [dir |-> <<"images", "/">>, digits |-> <<"2", "0", "2", "3">>,
       mark |-> <<"_">>, rest |-> <<"b", ".", "jpg">>],
      [dir |-> <<"images", "/">>, digits |-> <<"2", "0", "2", "3">>,
       mark |-> <<".">>, rest |-> <<"jpg">>],
      [dir |-> <<"images", "/">>, digits |-> <<"2", "0", "2", "4">>,
       mark |-> <<"-">>, rest |-> <<"a", ".", "jpg">>],
      [dir |-> <<"images", "/">>, digits |-> <<"2", "0", "2">>,
       mark |-> <<"-">>, rest |-> <<"a", ".", "jpg">>],
      [dir |-> <<"images", "/">>, digits |-> <<"2", "0", "2", "3", "4">>,
       mark |-> <<"-">>, rest |-> <<"a", ".", "jpg">>],
      [dir |-> <<"images", "/">>, digits |-> <<"2", "0", "2", "3">>,
       mark |-> <<"a">>, rest |-> <<".", "jpg">>],
      [dir |-> <<"images", "/">>, digits |-> <<"2", "0", "2", "3">>,
       mark |-> <<>>, rest |-> <<>>],
      [dir |-> <<"images", "/">>, digits |-> <<>>,
       mark |-> <<"a">>, rest |-> <<"2", "0", "2", "3", "-", "b", ".", "jpg">>],
      [dir |-> <<"images", "/", "2", "0", "2", "2", "-", "c", "/">>,
       digits |-> <<>>, mark |-> <<"a">>, rest |-> <<".", "jpg">>] }

OriginalOf(a) == a.dir \o a.digits \o a.mark \o a.rest

YearItems == { ImageItem(OriginalOf(a)) : a \in YearAssets }

\* The entries the gallery and the lightbox are tried on: entries as the
\* pipeline writes them, and entries with fields missing, null or empty.
PageItems ==
    { ImageItem(<<"images", "/", "2", "0", "2", "3", "-", "a", ".", "jpg">>),
      WebmItem(<<"images", "/", "2", "0", "2", "4", "-", "b", ".", "gif">>),
      [original  |-> <<"images", "/", "2", "0", "2", "4", "-", "c", ".", "png">>,
       optimized |-> [png |-> <<"images-optimized", "/", "c", ".", "png">>],
       format    |-> "image"],
      [original  |-> <<"images", "/", "c", ".", "gif">>,
       thumbnail |-> [webm |-> <<"images-thumbs", "/", "c", ".", "webm">>],
       format    |-> "webm"],
      [original  |-> <<"images", "/", "2", "0", "2", "3", "-", "c", ".", "jpg">>,
       optimized |-> [avif |-> <<"images-optimized", "/", "c", ".", "avif">>],
       thumbnail |-> [jpg  |-> JsNull,
                      png  |-> <<>>,
                      webp |-> <<"images-thumbs", "/", "c", ".", "webp">>],
       format    |-> "image"] }

\* Every index.json of at most MaxItems entries taken from a set of entries.
Manifests(items) == UNION { [1..n -> items] : n \in 0..MaxItems }

\* ------------------------------------------------------------- the DOM
\* A media element: its tag, its src and data-src attributes (Undefined
\* when the attribute is not there) and the srcset of its <source> children.
Media(tag, src, dataSrc, sources) ==
    [tag |-> tag, src |-> src, dataSrc |-> dataSrc, sources |-> sources]

NoMedia == Media("none", Undefined, Undefined, <<>>)
NoItem == [format |-> "none"]

\* The lightbox with class "hidden" and no content.
ClosedLightbox == [hidden |-> TRUE, shown |-> NoItem, media |-> NoMedia]

\* The elements that can hold the focus: the body (nothing focused), the
\* year button, a button of a card of the gallery as it is rendered now
\* ("cardBtn") or as it was rendered before ("oldCardBtn"), a button of the
\* lightbox content as it is now ("lbBtn") or as it was ("oldLbBtn").
IsConnected(el) == el \in {"body", "yearBtn", "cardBtn", "lbBtn"}

\* el.focus() moves the focus to a connected element that can take it.
TakesFocus(el) == el \in {"yearBtn", "cardBtn", "lbBtn"}

\* gallery.innerHTML = "": the elements of the cards leave the document.
AfterGalleryCleared(el) == IF el = "cardBtn" THEN "oldCardBtn" ELSE el

\* lightbox.innerHTML is replaced: the elements it held leave the document.
AfterLightboxCleared(el) == IF el = "lbBtn" THEN "oldLbBtn" ELSE el

\* document.activeElement after the focused element left the document.
ActiveAfterRemoval(el) == IF IsConnected(el) THEN el ELSE "body"

\* The page script has not run.
NoPage ==
    /\ indexJson = <<>>
    /\ supportsIO = TRUE
    /\ page = "off"
    /\ allItems = <<>>
    /\ filteredItems = <<>>
    /\ selectedYear = ALL
    /\ yearOptions = <<>>
    /\ currentIndex = 0
    /\ cards = <<>>
    /\ lightbox = ClosedLightbox
    /\ modalOpen = FALSE
    /\ listeners = FALSE
    /\ lastActiveEl = "null"
    /\ activeEl = "body"
    /\ openedFrom = "null"

\* A Copy URL button as createCard makes it.
FreshButton == [text |-> "Copy URL", disabled |-> FALSE]

\* No Copy URL button is being clicked.
NoCopy ==
    /\ btn = FreshButton
    /\ writes = 0
    /\ timers = <<>>
    /\ clicks = 0

\* ------------------------------------------------------ the page's functions
\* item.<obj>?.<k>
Field(item, obj, k) ==
    IF obj \in DOMAIN item THEN Get(item[obj], k) ELSE Undefined

\* .sort((a, b) => String(b?.original ?? "").localeCompare(String(a?.original ?? "")))
\* Array.prototype.sort is stable: x goes in behind the entries that do not
\* come before it in the descending order.
InsertDescending(sorted, x) ==
    LET key(it) == Coalesce(Get(it, "original"), <<>>)
        behind == { i \in 1..Len(sorted) : ~ComesBefore(key(sorted[i]), key(x)) }
        n == Cardinality(behind)
    IN  SubSeq(sorted, 1, n) \o <<x>> \o SubSeq(sorted, n + 1, Len(sorted))

RECURSIVE SortDescending(_)
SortDescending(items) ==
    IF Len(items) = 0 THEN <<>>
    ELSE InsertDescending(SortDescending(SubSeq(items, 1, Len(items) - 1)),
                          items[Len(items)])

\* buildYearFilter and buildYearMenu: "All years", then the years of the
\* items from the latest to the earliest.
RECURSIVE YearsDescending(_)
YearsDescending(years) ==
    IF years = {} THEN <<>>
    ELSE LET y == CHOOSE a \in years : \A b \in years : Number(a) >= Number(b)
         IN  <<y>> \o YearsDescending(years \ {y})

buildYearMenu(items) ==
    LET years == { yearFromItem(items[i]) : i \in 1..Len(items) } \ {JsNull}
    IN  <<ALL>> \o YearsDescending(years)

\* The filter of applyFiltersAndRender.
HasSelectedYear(year, it) == yearFromItem(it) = year

\* A filter that keeps an item without a year under every year.
filterItems_KeepsUndated(items, year) ==
    IF year # ALL
    THEN SelectSeq(items, LAMBDA it : yearFromItem(it) \in {year, JsNull})
    ELSE items

filterItems(items, year) ==
    IF year # ALL
    THEN SelectSeq(items, LAMBDA it : HasSelectedYear(year, it))
    ELSE items

\* observeLazy(video): without IntersectionObserver the src is set at once.
observeLazy(m) ==
    IF supportsIO
    THEN [media |-> m, observed |-> TRUE]
    ELSE [media |-> IF Truthy(m.dataSrc)
                    THEN [m EXCEPT !.src = m.dataSrc, !.dataSrc = Undefined]
                    ELSE m,
          observed |-> FALSE]

\* The <source> children a <picture> gets for the avif and webp of obj.
pictureSources(item, obj) ==
    (IF Truthy(Field(item, obj, "avif"))
     THEN <<Field(item, obj, "avif")>> ELSE <<>>) \o
    (IF Truthy(Field(item, obj, "webp"))
     THEN <<Field(item, obj, "webp")>> ELSE <<>>)

\* obj?.jpg ?? obj?.png ?? obj?.webp ?? ""
imgSrc(item, obj) ==
    Coalesce(Field(item, obj, "jpg"),
        Coalesce(Field(item, obj, "png"),
            Coalesce(Field(item, obj, "webp"), <<>>)))

createCard(item) ==
    IF item.format = "webm"
    THEN observeLazy(Media("video", Undefined,
                           Coalesce(Field(item, "thumbnail", "webm"), <<>>),
                           <<>>))
    ELSE [media |-> Media("picture", imgSrc(item, "thumbnail"), Undefined,
                          pictureSources(item, "thumbnail")),
          observed |-> FALSE]

renderGallery(items) == [i \in 1..Len(items) |-> createCard(items[i])]

\* A lightbox that shows the original when no optimized still is there.
createLightboxMedia_FallsBackToOriginal(item) ==
    IF item.format = "webm"
    THEN Media("video", Coalesce(Field(item, "optimized", "webm"), <<>>),
               Undefined, <<>>)
    ELSE Media("picture",
               IF Truthy(imgSrc(item, "optimized"))
               THEN imgSrc(item, "optimized") ELSE item.original,
               Undefined, pictureSources(item, "optimized"))

createLightboxMedia(item) ==
    IF item.format = "webm"
    THEN Media("video", Coalesce(Field(item, "optimized", "webm"), <<>>),
               Undefined, <<>>)
    ELSE Media("picture", imgSrc(item, "optimized"), Undefined,
               pictureSources(item, "optimized"))

\* ============================================================ the pipeline
\* ------------------------------------------------------------------ Init
\* No path is being classified.
NoClassification ==
    /\ cFile = <<>>
    /\ cClass = [step |-> "off", candidate |-> FALSE, kind |-> "none",
                 branch |-> "none"]

\* The script starts: nothing scanned, nothing encoded, nothing collected.
Start ==
    /\ sep \in {"/", "\\"}
    /\ ffmpegPresent \in BOOLEAN
    /\ tree \in Trees(sep)
    /\ files = <<>>
    /\ orderedFiles = <<>>
    /\ idx = 1
    /\ pc = "check"
    /\ proc = "none"
    /\ ticks = 0
    /\ inflight = {}
    /\ disk = <<>>
    /\ indexData = <<>>
    /\ hist = {}
    /\ calls = <<>>

\* A first run: there is no index.json yet.
Init ==
    /\ Start
    /\ indexFile = NoFile
    /\ NoClassification
    /\ NoPage
    /\ NoCopy

\* The manifest an earlier run left: one entry, of an asset since removed.
PreviousIndex ==
    << [original  |-> <<"images", "/", "old", ".png">>,
        optimized |-> [webp |-> <<"images-optimized", "/", "old", ".webp">>,
                       jpg  |-> <<"images-optimized", "/", "old", ".jpg">>],
        thumbnail |-> [webp |-> <<"images-thumbs", "/", "old", ".webp">>,
                       jpg  |-> <<"images-thumbs", "/", "old", ".jpg">>],
        format    |-> "image"] >>

\* A later run: index.json holds what the earlier run wrote.
InitRerun ==
    /\ Start
    /\ indexFile = FileWith(PreviousIndex)
    /\ NoClassification
    /\ NoPage
    /\ NoCopy

\* One ffmpeg encode runCmd is entered for.
Call(file, step) == [file |-> file, step |-> step]

\* A branch that runs the VP8 encode after the VP9 encode whatever it gave.
AfterRunCmd_BothCodecs(step, ok) ==
    CASE step = "vp9" -> "vp8"
      [] step = "vp8" -> IF ok THEN "thumb" ELSE "loop"
      [] OTHER -> "loop"

\* A branch that makes the thumbnail whatever the full encodes gave.
AfterRunCmd_ThumbRegardless(step, ok) ==
    CASE step = "vp9" -> IF ok THEN "thumb" ELSE "vp8"
      [] step = "vp8" -> "thumb"
      [] OTHER -> "loop"

\* The GIF branch after an ffmpeg encode has returned: the encode entered
\* next, or "loop" when the iteration is over. VP9 success and VP8 success
\* lead to the thumbnail; VP9 failure leads to VP8; VP8 failure and the
\* thumbnail's return end the iteration.
AfterRunCmd(step, ok) ==
    CASE step = "vp9" -> IF ok THEN "thumb" ELSE "vp8"
      [] step = "vp8" -> IF ok THEN "thumb" ELSE "loop"
      [] OTHER -> "loop"

\* --------------------------------------------------------------- actions
\* const ffCheck = runCmd("ffmpeg", ["-version"]): logs, and goes on either way.
FfCheck ==
    /\ pc = "check"
    /\ pc' = "scan"
    /\ UNCHANGED <<sep, ffmpegPresent, tree, files, orderedFiles, idx, proc,
                   ticks, inflight, disk, indexData, indexFile, hist, calls>>
    /\ UNCHANGED <<classVars, pageVars, copyVars>>

\* A scan that goes on to the loop whatever it found.
Scan_NoEarlyExit ==
    /\ pc = "scan"
    /\ files' = glob(tree)
    /\ orderedFiles' = OrderedFiles(files')
    /\ pc' = "loop"
    /\ UNCHANGED <<sep, ffmpegPresent, tree, idx, proc, ticks, inflight, disk,
                   indexData, indexFile, hist, calls>>
    /\ UNCHANGED <<classVars, pageVars, copyVars>>

\* glob, the statics/gifs split and the empty-batch exit.
Scan ==
    /\ pc = "scan"
    /\ files' = glob(tree)
    /\ orderedFiles' = OrderedFiles(files')
    /\ pc' = IF Len(files') = 0 THEN "exit" ELSE "loop"
    /\ UNCHANGED <<sep, ffmpegPresent, tree, idx, proc, ticks, inflight, disk,
                   indexData, indexFile, hist, calls>>
    /\ UNCHANGED <<classVars, pageVars, copyVars>>

\* The loop takes a GIF: runCmd("ffmpeg", <VP9 arguments>) is entered.
LoopGif ==
    /\ pc = "loop"
    /\ idx <= Len(orderedFiles)
    /\ toLowerCase(extname(orderedFiles[idx])) = ".gif"
    /\ pc' = "vp9"
    /\ proc' \in Spawned
    /\ ticks' = 0
    /\ calls' = Append(calls, Call(orderedFiles[idx], "vp9"))
    /\ UNCHANGED <<sep, ffmpegPresent, tree, files, orderedFiles, idx, inflight,
                   disk, indexData, indexFile, hist>>
    /\ UNCHANGED <<classVars, pageVars, copyVars>>

\* The loop takes a static image: the two full-tier encodes are started and
\* awaited with Promise.all.
LoopStatic ==
    /\ pc = "loop"
    /\ idx <= Len(orderedFiles)
    /\ toLowerCase(extname(orderedFiles[idx])) # ".gif"
    /\ inflight' = inflight \cup fullPair(orderedFiles[idx])
    /\ pc' = "full"
    /\ UNCHANGED <<sep, ffmpegPresent, tree, files, orderedFiles, idx, proc,
                   ticks, disk, indexData, indexFile, hist, calls>>
    /\ UNCHANGED <<classVars, pageVars, copyVars>>

\* A write that comes when the last asset is reached, not when it is done.
WriteIndex_BeforeLast ==
    /\ pc = "loop"
    /\ idx >= Len(orderedFiles)
    /\ indexFile' = FileWith(indexData)
    /\ pc' = "done"
    /\ UNCHANGED <<sep, ffmpegPresent, tree, files, orderedFiles, idx, proc,
                   ticks, inflight, disk, indexData, hist, calls>>
    /\ UNCHANGED <<classVars, pageVars, copyVars>>

\* The loop is over: fs.writeFileSync(indexFile, JSON.stringify(indexData)).
WriteIndex ==
    /\ pc = "loop"
    /\ idx > Len(orderedFiles)
    /\ indexFile' = FileWith(indexData)
    /\ pc' = "done"
    /\ UNCHANGED <<sep, ffmpegPresent, tree, files, orderedFiles, idx, proc,
                   ticks, inflight, disk, indexData, hist, calls>>
    /\ UNCHANGED <<classVars, pageVars, copyVars>>

\* Wall-clock time passes while spawnSync blocks on the subprocess.
Tick ==
    /\ pc \in {"vp9", "vp8", "thumb"}
    /\ proc \in {"running", "hung"}
    /\ ticks < MaxTicks
    /\ ticks' = ticks + 1
    /\ UNCHANGED <<sep, ffmpegPresent, tree, files, orderedFiles, idx, pc, proc,
                   inflight, disk, indexData, indexFile, hist, calls>>
    /\ UNCHANGED <<classVars, pageVars, copyVars>>

\* r.stderr.slice(0, n) throws a TypeError when stderr is null.
SliceThrows(r) == r.stderr = NULL

\* spawnSync returns and the code after the runCmd call runs up to the next
\* runCmd call or the end of the loop body. A failed ffmpeg may leave a
\* partial output file behind (partial).
RunCmdReturn(res, partial) ==
    /\ pc \in {"vp9", "vp8", "thumb"}
    /\ \/ proc = "running" /\ res \in SpawnResults
       \/ proc = "enoent" /\ res = Enoent
    /\ partial => (res.status # "0" /\ res # Enoent)
    /\ LET file == orderedFiles[idx]
           r == runCmd(res)
           out == IF pc = "thumb" THEN thumbWebM(file) ELSE optimizedWebM(file)
           d1 == IF r.ok THEN Written(disk, out, file, TRUE)
                 ELSE IF partial THEN Written(disk, out, file, FALSE)
                 ELSE disk
           h1 == hist \cup {Ended(file, pc, r.ok)}
           copies == pc = "vp8" /\ ~r.ok /\ ~SliceThrows(r)
           nxt == AfterRunCmd(pc, r.ok)
       IN  /\ disk' = IF copies
                      THEN Written(d1, fallbackGif(file), file, TRUE)
                      ELSE d1
           /\ hist' = IF copies THEN h1 \cup {Ended(file, "copy", TRUE)} ELSE h1
           /\ indexData' = IF pc = "thumb" /\ r.ok
                           THEN Append(indexData, webmEntry(file))
                           ELSE indexData
           /\ IF nxt # "loop"
              THEN /\ pc' = nxt
                   /\ proc' \in Spawned
                   /\ idx' = idx
                   /\ calls' = Append(calls, Call(file, nxt))
              ELSE /\ pc' = "loop"
                   /\ proc' = "none"
                   /\ idx' = idx + 1
                   /\ calls' = calls
           /\ ticks' = 0
    /\ UNCHANGED <<sep, ffmpegPresent, tree, files, orderedFiles, inflight,
                   indexFile>>
    /\ UNCHANGED <<classVars, pageVars, copyVars>>

\* A toFile() promise settles. A failed encode may leave a partial file
\* (partial). When the promise is one of the pair the loop awaits, the code
\* after the await runs: Promise.all rejects on the first rejection and the
\* catch block ends the iteration; it resolves when both have resolved.
SharpSettle(e, ok, partial) ==
    /\ e \in inflight
    /\ partial => ~ok
    /\ disk' = IF ok THEN Written(disk, e.out, e.file, TRUE)
               ELSE IF partial THEN Written(disk, e.out, e.file, FALSE)
               ELSE disk
    /\ hist' = hist \cup {Ended(e.file, e.step, ok)}
    /\ LET awaited == /\ pc \in {"full", "thumbs"}
                      /\ idx <= Len(orderedFiles)
                      /\ e.file = orderedFiles[idx]
           sibling == \E o \in inflight \ {e} : o.file = e.file
       IN  IF ~awaited \/ (ok /\ sibling)
           THEN /\ inflight' = inflight \ {e}
                /\ UNCHANGED <<pc, idx, indexData>>
           ELSE IF ~ok
           THEN /\ inflight' = inflight \ {e}
                /\ pc' = "loop"
                /\ idx' = idx + 1
                /\ UNCHANGED indexData
           ELSE IF pc = "full"
           THEN /\ inflight' = (inflight \ {e}) \cup thumbPair(e.file)
                /\ pc' = "thumbs"
                /\ UNCHANGED <<idx, indexData>>
           ELSE /\ inflight' = inflight \ {e}
                /\ indexData' = Append(indexData, imageEntry(e.file))
                /\ pc' = "loop"
                /\ idx' = idx + 1
    /\ UNCHANGED <<sep, ffmpegPresent, tree, files, orderedFiles, proc, ticks,
                   indexFile, calls>>
    /\ UNCHANGED <<classVars, pageVars, copyVars>>

Run ==
    \/ FfCheck
    \/ Scan
    \/ LoopGif
    \/ LoopStatic
    \/ WriteIndex
    \/ Tick
    \/ \E res \in {Exited("0"), Exited("1"), Killed, Enoent}, partial \in BOOLEAN :
          RunCmdReturn(res, partial)
    \/ \E e \in inflight, ok \in BOOLEAN, partial \in BOOLEAN :
          SharpSettle(e, ok, partial)

Next == Run

Spec == Init /\ [][Next]_vars

\* A run that finds the manifest of an earlier run.
SpecRerun == InitRerun /\ [][Next]_vars

\* The scheduling of the run: the event loop takes every step that is ready.
\* A subprocess that never exits (proc = "hung") leaves no step ready.
FairSpec == Spec /\ WF_vars(Next)

\* -------------------------------------------------------- classification
\* What the script makes of one path: whether glob returns it, and for a
\* returned path the half of the batch the filters put it in and the branch
\* of the loop body it takes.
\* The script is not running.
NoRun ==
    /\ ffmpegPresent = FALSE
    /\ tree = <<>>
    /\ files = <<>>
    /\ orderedFiles = <<>>
    /\ idx = 1
    /\ pc = "off"
    /\ proc = "none"
    /\ ticks = 0
    /\ inflight = {}
    /\ disk = <<>>
    /\ indexData = <<>>
    /\ indexFile = NoFile
    /\ hist = {}
    /\ calls = <<>>

\* The names a classified file may have.
ClassifyDirs == { <<"images">>, <<"images", "sub">>, <<"images", ".cache">> }
ClassifyStems == { "x", ".h" }
ClassifyExts ==
    {".png", ".PNG", ".Png", ".jpg", ".JPG", ".jpeg", ".JPEG", ".webp",
     ".WEBP", ".gif", ".GIF", ".Gif", ".txt", ".TXT", ".svg",
     ".pngpng", ".PNGpng", ".gifjpg"}

ClassifyFiles ==
    { [dirs |-> d, name |-> <<n, e>>] :
        d \in ClassifyDirs, n \in ClassifyStems, e \in ClassifyExts }

Unclassified == [step |-> "start", candidate |-> FALSE, kind |-> "none",
                 branch |-> "none"]

ClassifyInit ==
    /\ sep \in {"/", "\\"}
    /\ NoRun
    /\ cFile \in { OsPath(f, sep) : f \in ClassifyFiles }
    /\ cClass = Unclassified
    /\ NoPage
    /\ NoCopy

\* const files = await glob(pattern, { nocase: true })
ClassifyGlob ==
    /\ cClass.step = "start"
    /\ cClass' = [cClass EXCEPT !.step = "globbed",
                                !.candidate = MatchesPattern(cFile)]
    /\ UNCHANGED cFile
    /\ UNCHANGED <<runVars, pageVars, copyVars>>

\* The gifs/statics filters and the ext === ".gif" test of the loop body.
ClassifyKind ==
    /\ cClass.step = "globbed"
    /\ cClass.candidate
    /\ cClass' = [cClass EXCEPT
                     !.step = "dispatched",
                     !.kind = IF IsGif(cFile) THEN "gifs" ELSE "statics",
                     !.branch = IF toLowerCase(extname(cFile)) = ".gif"
                                THEN "ffmpeg" ELSE "sharp"]
    /\ UNCHANGED cFile
    /\ UNCHANGED <<runVars, pageVars, copyVars>>

ClassifyNext == ClassifyGlob \/ ClassifyKind

ClassifySpec == ClassifyInit /\ [][ClassifyNext]_vars

\* ------------------------------------------------------------ the page
\* The script has started: the fetch of index.json is under way.
PageInit(items) ==
    /\ indexJson \in Manifests(items)
    /\ supportsIO \in BOOLEAN
    /\ page = "loading"
    /\ allItems = <<>>
    /\ filteredItems = <<>>
    /\ selectedYear = ALL
    /\ yearOptions = <<>>
    /\ currentIndex = 0
    /\ cards = <<>>
    /\ lightbox = ClosedLightbox
    /\ modalOpen = FALSE
    /\ listeners = FALSE
    /\ lastActiveEl = "null"
    /\ activeEl = "body"
    /\ openedFrom = "null"

\* loadIndex after the fetch gave an array: sort, and with no item the error
\* is shown; else the year menu is built and the gallery rendered.
loadIndex ==
    /\ page = "loading"
    /\ allItems' = SortDescending(indexJson)
    /\ IF Len(allItems') = 0
       THEN /\ page' = "error"
            /\ UNCHANGED <<yearOptions, selectedYear, filteredItems, cards>>
       ELSE /\ yearOptions' = buildYearMenu(allItems')
            /\ selectedYear' = ALL
            /\ filteredItems' = filterItems(allItems', selectedYear')
            /\ cards' = renderGallery(filteredItems')
            /\ page' = "ready"
    /\ UNCHANGED <<indexJson, supportsIO, currentIndex, lightbox, modalOpen,
                   listeners, lastActiveEl, activeEl, openedFrom>>
    /\ UNCHANGED <<runVars, classVars, copyVars>>

\* loadIndex when the fetch fails or gives no array: the error is shown.
loadIndexFails ==
    /\ page = "loading"
    /\ page' = "error"
    /\ UNCHANGED <<indexJson, supportsIO, allItems, filteredItems, selectedYear,
                   yearOptions, currentIndex, cards, lightbox, modalOpen,
                   listeners, lastActiveEl, activeEl, openedFrom>>
    /\ UNCHANGED <<runVars, classVars, copyVars>>

\* The click handler of a year option: applyFiltersAndRender with the value
\* of the option. The gallery is rendered anew; the lightbox is left alone.
SelectYear(value) ==
    /\ page = "ready"
    /\ value \in { yearOptions[i] : i \in DOMAIN yearOptions }
    /\ selectedYear' = value
    /\ filteredItems' = filterItems(allItems, value)
    /\ cards' = renderGallery(filteredItems')
    /\ activeEl' = ActiveAfterRemoval(AfterGalleryCleared(activeEl))
    /\ lastActiveEl' = AfterGalleryCleared(lastActiveEl)
    /\ openedFrom' = AfterGalleryCleared(openedFrom)
    /\ UNCHANGED <<indexJson, supportsIO, page, allItems, yearOptions,
                   currentIndex, lightbox, modalOpen, listeners>>
    /\ UNCHANGED <<runVars, classVars, copyVars>>

\* The user moves the focus (Tab, or a click on a control).
FocusMove(el) ==
    /\ page = "ready"
    /\ el # activeEl
    /\ \/ el \in {"body", "yearBtn"}
       \/ el = "cardBtn" /\ Len(cards) > 0
       \/ el = "lbBtn" /\ ~lightbox.hidden
    /\ activeEl' = el
    /\ UNCHANGED <<indexJson, supportsIO, page, allItems, filteredItems,
                   selectedYear, yearOptions, currentIndex, cards, lightbox,
                   modalOpen, listeners, lastActiveEl, openedFrom>>
    /\ UNCHANGED <<runVars, classVars, copyVars>>

\* The IntersectionObserver callback for the video of card i.
LazyLoad(i) ==
    /\ i \in DOMAIN cards
    /\ cards[i].observed
    /\ LET m == cards[i].media
       IN  cards' = [cards EXCEPT ![i] =
               [media |-> IF Truthy(m.dataSrc)
                          THEN [m EXCEPT !.src = m.dataSrc, !.dataSrc = Undefined]
                          ELSE [m EXCEPT !.dataSrc = Undefined],
                observed |-> FALSE]]
    /\ UNCHANGED <<indexJson, supportsIO, page, allItems, filteredItems,
                   selectedYear, yearOptions, currentIndex, lightbox, modalOpen,
                   listeners, lastActiveEl, activeEl, openedFrom>>
    /\ UNCHANGED <<runVars, classVars, copyVars>>

\* The lightbox showing an item.
Showing(item) ==
    [hidden |-> FALSE, shown |-> item, media |-> createLightboxMedia(item)]

\* The focus after closeLightbox: the content of the lightbox is gone, and
\* lastActiveEl takes the focus when it is connected and can take it.
FocusAfterClose(last, act) ==
    IF last # "null" /\ IsConnected(AfterLightboxCleared(last))
                     /\ TakesFocus(AfterLightboxCleared(last))
    THEN last
    ELSE ActiveAfterRemoval(AfterLightboxCleared(act))

openLightbox(index) ==
    /\ page = "ready"
    /\ currentIndex' = index
    /\ IF index + 1 \in DOMAIN filteredItems
       THEN /\ lastActiveEl' = AfterLightboxCleared(activeEl)
            /\ lightbox' = Showing(filteredItems[index + 1])
            /\ listeners' = TRUE
            /\ modalOpen' = TRUE
            /\ activeEl' = "lbBtn"
            /\ openedFrom' = IF lightbox.hidden THEN activeEl ELSE openedFrom
       ELSE /\ lastActiveEl' = activeEl
            /\ UNCHANGED <<lightbox, listeners, modalOpen, activeEl, openedFrom>>
    /\ UNCHANGED <<indexJson, supportsIO, page, allItems, filteredItems,
                   selectedYear, yearOptions, cards>>
    /\ UNCHANGED <<runVars, classVars, copyVars>>

\* The click handler of the media of card i.
CardClick(i) ==
    /\ i \in DOMAIN cards
    /\ openLightbox(i - 1)

closeLightbox ==
    /\ ~lightbox.hidden
    /\ lightbox' = ClosedLightbox
    /\ listeners' = FALSE
    /\ modalOpen' = FALSE
    /\ activeEl' = FocusAfterClose(lastActiveEl, activeEl)
    /\ lastActiveEl' = "null"
    /\ openedFrom' = "null"
    /\ UNCHANGED <<indexJson, supportsIO, page, allItems, filteredItems,
                   selectedYear, yearOptions, currentIndex, cards>>
    /\ UNCHANGED <<runVars, classVars, copyVars>>

\* go(delta), from an arrow key, a swipe or the prev/next buttons: nothing at
\* an end of the list, else closeLightbox() and openLightbox(next).
go(delta) ==
    /\ ~lightbox.hidden
    /\ LET next == currentIndex + delta
       IN  IF next < 0 \/ next >= Len(filteredItems)
           THEN UNCHANGED <<currentIndex, lightbox, listeners, modalOpen,
                            activeEl, lastActiveEl, openedFrom>>
           ELSE /\ lastActiveEl' = FocusAfterClose(lastActiveEl, activeEl)
                /\ currentIndex' = next
                /\ lightbox' = Showing(filteredItems[next + 1])
                /\ listeners' = TRUE
                /\ modalOpen' = TRUE
                /\ activeEl' = "lbBtn"
                /\ UNCHANGED openedFrom
    /\ UNCHANGED <<indexJson, supportsIO, page, allItems, filteredItems,
                   selectedYear, yearOptions, cards>>
    /\ UNCHANGED <<runVars, classVars, copyVars>>

\* What the user and the browser do to the gallery and the lightbox.
PageEvents ==
    \/ loadIndex
    \/ loadIndexFails
    \/ \E i \in DOMAIN yearOptions : SelectYear(yearOptions[i])
    \/ \E el \in {"body", "yearBtn", "cardBtn", "lbBtn"} : FocusMove(el)
    \/ \E i \in DOMAIN cards : LazyLoad(i)
    \/ \E i \in DOMAIN cards : CardClick(i)
    \/ closeLightbox
    \/ \E delta \in {-1, 1} : go(delta)

PageNext == PageEvents

PageStart(items) ==
    /\ sep = "/"
    /\ NoRun
    /\ NoClassification
    /\ NoCopy
    /\ PageInit(items)

PageSpecInit == PageStart(PageItems)

\* The page on the entries of PageItems.
PageSpec == PageSpecInit /\ [][PageNext]_vars

\* openLightbox called with an index whatever the gallery holds.
openLightboxCall(index) == openLightbox(index)

CallNext ==
    \/ PageNext
    \/ \E index \in -1..MaxItems : openLightboxCall(index)

\* The page with openLightbox also called from outside the card handlers.
CallSpec == PageSpecInit /\ [][CallNext]_vars

\* The year filter alone, on the entries of YearItems.
YearInit == PageStart(YearItems)

YearNext ==
    \/ loadIndex
    \/ loadIndexFails
    \/ \E i \in DOMAIN yearOptions : SelectYear(yearOptions[i])

YearSpec == YearInit /\ [][YearNext]_vars

\* ------------------------------------------------------ a Copy URL button
\* The click handler: copyOriginalUrl starts navigator.clipboard.writeText
\* and waits for it. A disabled button gets no click.
copyClick ==
    /\ ~btn.disabled
    /\ clicks < MaxClicks
    /\ clicks' = clicks + 1
    /\ writes' = writes + 1
    /\ UNCHANGED <<btn, timers>>
    /\ UNCHANGED <<runVars, classVars, pageVars>>

\* toastButton(btn, "Copied"): prev is what the button shows now.
toastButton ==
    /\ timers' = Append(timers, btn.text)
    /\ btn' = [text |-> "Copied", disabled |-> TRUE]

\* A writeText promise resolves: the rest of copyOriginalUrl runs.
writeResolves ==
    /\ writes > 0
    /\ writes' = writes - 1
    /\ toastButton
    /\ UNCHANGED clicks
    /\ UNCHANGED <<runVars, classVars, pageVars>>

\* A writeText promise rejects: the catch block shows the prompt.
writeRejects ==
    /\ writes > 0
    /\ writes' = writes - 1
    /\ UNCHANGED <<btn, timers, clicks>>
    /\ UNCHANGED <<runVars, classVars, pageVars>>

\* The earliest timer fires (all have the same delay): the callback of
\* setTimeout puts prev back and enables the button.
timerFires ==
    /\ Len(timers) > 0
    /\ btn' = [text |-> Head(timers), disabled |-> FALSE]
    /\ timers' = Tail(timers)
    /\ UNCHANGED <<writes, clicks>>
    /\ UNCHANGED <<runVars, classVars, pageVars>>

CopyInit ==
    /\ sep = "/"
    /\ NoRun
    /\ NoClassification
    /\ NoPage
    /\ NoCopy

CopyNext == copyClick \/ writeResolves \/ writeRejects \/ timerFires

CopySpec == CopyInit /\ [][CopyNext]_vars

\* ------------------------------------------------- what the claims speak of
Terminated == pc \in {"done", "exit"}

Range(q) == { q[i] : i \in DOMAIN q }

\* The asset a discovered path names, and its root-relative path written
\* with forward slashes.
AssetOf(p) == CHOOSE f \in TreeFiles : OsPath(f, sep) = p
PortablePath(p) == OsPath(AssetOf(p), "/")

IsAnimatedAsset(p) ==
    LET n == AssetOf(p).name IN n[Len(n)] \in {".gif", ".GIF"}

Succeeded(f, step) == Ended(f, step, TRUE) \in hist
Failed(f, step) == Ended(f, step, FALSE) \in hist

StaticSteps == {"full.webp", "full.jpg", "thumb.webp", "thumb.jpg"}

StaticOk(f) == \A step \in StaticSteps : Succeeded(f, step)
GifOk(f) ==
    /\ Succeeded(f, "vp9") \/ Succeeded(f, "vp8")
    /\ Succeeded(f, "thumb")

\* The asset's processing ended without an error.
CompletedOk(f) == IF IsAnimatedAsset(f) THEN GifOk(f) ELSE StaticOk(f)

EntriesOf(f) == { k \in DOMAIN indexData : indexData[k].original = PortablePath(f) }

\* The paths an entry references.
Referenced(e) ==
    { e.optimized[k] : k \in DOMAIN e.optimized } \cup
    { e.thumbnail[k] : k \in DOMAIN e.thumbnail }

\* The portable path pp names a file of the disk that was written to its end
\* from asset f.
OwnCompleteFile(pp, f) ==
    \E q \in DOMAIN disk :
        /\ replaceBackslash(q) = pp
        /\ disk[q].src = f
        /\ disk[q].complete

\* ------------------------------------------------------------------- C1
\* C1: at the end of a run every manifest entry belongs to a discovered asset
\* all of whose encodes succeeded, and every path it references names a file
\* that was written to its end from that very asset.
C1_EntriesReferenceOwnFiles ==
    (pc = "done" /\ inflight = {}) =>
        \A k \in DOMAIN indexData :
            \E f \in Range(files) :
                /\ indexData[k].original = PortablePath(f)
                /\ CompletedOk(f)
                /\ (indexData[k].format = "webm") = IsAnimatedAsset(f)
                /\ \A pp \in Referenced(indexData[k]) : OwnCompleteFile(pp, f)

\* ------------------------------------------------------------------- C2
\* C2: no ffmpeg invocation is still being waited for once the wall-clock
\* time since its spawn exceeds MAX_FFMPEG_MS.
C2_InvocationWithinBudget ==
    (pc \in {"vp9", "vp8", "thumb"} /\ proc \in {"running", "hung"}) =>
        ticks * TickMs <= MAX_FFMPEG_MS

\* ------------------------------------------------------------------- C3
\* C3: whatever fails for one asset, the run goes on to its end: the manifest
\* is written, every asset of the batch has been taken up, and the manifest
\* holds one entry for each asset whose processing ended without an error.
AllTakenUp ==
    \A i \in 1..Len(orderedFiles) :
        \E h \in hist : h.file = orderedFiles[i]

C3_FailureNeverAbortsBatch ==
    /\ [](pc = "done" =>
            /\ AllTakenUp
            /\ indexFile = FileWith(indexData)
            /\ Len(indexData) =
                  Cardinality({ i \in 1..Len(files) : CompletedOk(files[i]) }))
    /\ [](pc = "loop" => <>(pc = "done"))

\* ------------------------------------------------------------------- C4
\* C4: when the loop is about to start the next asset, no encode of an earlier
\* asset is still in flight.
C4_NextAssetAfterAllSettled ==
    (pc = "loop" /\ idx <= Len(orderedFiles)) => inflight = {}

\* ------------------------------------------------------------------- C5
\* C5: once both the VP9 and the VP8 attempt of an animated asset have failed,
\* the original is in the full-tier output directory, no thumbnail encode of
\* the asset was run and the asset has no manifest entry.
C5_FallbackCopyAfterBothFail ==
    \A f \in Range(orderedFiles) :
        (Failed(f, "vp9") /\ Failed(f, "vp8")) =>
            /\ fallbackGif(f) \in DOMAIN disk
            /\ disk[fallbackGif(f)] = [src |-> f, complete |-> TRUE]
            /\ ~Succeeded(f, "thumb") /\ ~Failed(f, "thumb")
            /\ EntriesOf(f) = {}

\* ------------------------------------------------------------------- C6
\* C6: in the final manifest every discovered asset whose processing ended
\* without an error has exactly one entry, found under its root-relative
\* forward-slash path; no asset has two entries; every entry is the entry of
\* a discovered asset.
C6_OneEntryPerCompletedAsset ==
    pc = "done" =>
        /\ \A i \in 1..Len(files) :
              /\ CompletedOk(files[i]) => Cardinality(EntriesOf(files[i])) = 1
              /\ Cardinality(EntriesOf(files[i])) <= 1
        /\ \A k \in DOMAIN indexData :
              \E i \in 1..Len(files) : indexData[k].original = PortablePath(files[i])

\* A run on a backslash platform that ended with two discovered assets, one
\* of them with an entry and one without.
C6_Witness ==
    /\ pc = "done"
    /\ sep = "\\"
    /\ Len(files) = 2
    /\ Len(indexData) = 1
    /\ \E i \in 1..2 : CompletedOk(files[i]) /\ EntriesOf(files[i]) # {}

\* ------------------------------------------------------------------- C7
\* C7: of any two manifest entries the earlier one is the entry of a static
\* asset or the later one that of an animated asset, and when both are of the
\* same kind the earlier one's asset was discovered first.
DiscoveryPos(original) ==
    CHOOSE i \in 1..Len(files) : PortablePath(files[i]) = original

C7_ManifestInProcessingOrder ==
    \A j, k \in DOMAIN indexData :
        j < k =>
            LET a == files[DiscoveryPos(indexData[j].original)]
                b == files[DiscoveryPos(indexData[k].original)]
            IN  /\ IsAnimatedAsset(a) => IsAnimatedAsset(b)
                /\ (IsAnimatedAsset(a) = IsAnimatedAsset(b)) =>
                      DiscoveryPos(indexData[j].original) <
                          DiscoveryPos(indexData[k].original)

\* A finished run whose animated asset was discovered before its static
\* asset, both with an entry.
C7_Witness ==
    /\ pc = "done"
    /\ Len(files) = 2
    /\ IsAnimatedAsset(files[1])
    /\ ~IsAnimatedAsset(files[2])
    /\ Len(indexData) = 2

\* ------------------------------------------------------------------- C8
\* C8: no step writes a path of the output directories that holds a file
\* made from another asset, and no two encodes in flight for different
\* assets have the same output path.
C8_OutputsAppendOnly ==
    /\ [][\A p \in DOMAIN disk : disk'[p].src = disk[p].src]_vars
    /\ [](\A e1, e2 \in inflight : e1.out = e2.out => e1.file = e2.file)

\* ------------------------------------------------------------------- C9
\* C9: the encodes in flight (toFile promises and the ffmpeg subprocess) are
\* never more than four and always belong to one asset.
SubprocessCount == IF proc \in {"running", "hung"} THEN 1 ELSE 0

C9_InFlightWithinOneAsset ==
    /\ Cardinality(inflight) + SubprocessCount <= 4
    /\ \A e1, e2 \in inflight : e1.file = e2.file
    /\ SubprocessCount = 1 => inflight = {}

\* ------------------------------------------------------------------ C10
\* C10: without an ffmpeg binary the run neither stops early nor gets stuck;
\* at its end the manifest is written, no animated asset has an entry, and
\* the entries of the static assets are, with or without the binary, those
\* of the static assets whose four encodes succeeded, in discovery order.
IsImageEntry(e) == e.format = "image"
IsEncodedStatic(f) == ~IsAnimatedAsset(f) /\ StaticOk(f)
Originals(q) == [k \in DOMAIN q |-> q[k].original]
PortablePaths(q) == [k \in DOMAIN q |-> PortablePath(q[k])]

C10_RunWithoutEncoder ==
    /\ ~ffmpegPresent =>
          /\ pc = "exit" => Len(files) = 0
          /\ Terminated \/ ENABLED Next
    /\ pc = "done" =>
          /\ Originals(SelectSeq(indexData, IsImageEntry)) =
                PortablePaths(SelectSeq(files, IsEncodedStatic))
          /\ ~ffmpegPresent =>
                /\ indexFile = FileWith(indexData)
                /\ \A k \in DOMAIN indexData : IsImageEntry(indexData[k])
                /\ \A i \in 1..Len(files) :
                      IsAnimatedAsset(files[i]) =>
                          /\ EntriesOf(files[i]) = {}
                          /\ \E h \in hist : h.file = files[i] /\ ~h.ok

\* A finished run without the binary over one animated and one static asset,
\* the static one with its entry.
C10_Witness ==
    /\ pc = "done"
    /\ ~ffmpegPresent
    /\ Len(files) = 2
    /\ \E i, j \in 1..2 : IsAnimatedAsset(files[i]) /\ IsEncodedStatic(files[j])
    /\ Len(indexData) = 1

\* ------------------------------------------------------------------ C11
\* The asset of the tree at p is an image by its extension.
IsCandidateAsset(p) ==
    LET n == AssetOf(p).name
    IN  n[Len(n)] \in {".png", ".jpg", ".gif", ".GIF"}

CandidatesInTree == { i \in 1..Len(tree) : IsCandidateAsset(tree[i]) }

\* C11: when the source tree holds no candidate file, the run exits after the
\* scan before any encode was started and without writing index.json: the
\* manifest an earlier run left is still there, unchanged.
C11_EmptyBatchLeavesManifest ==
    (pc \notin {"check", "scan"} /\ CandidatesInTree = {}) =>
        /\ pc = "exit"
        /\ indexFile = FileWith(PreviousIndex)
        /\ calls = <<>> /\ hist = {} /\ inflight = {} /\ disk = <<>>

C11_Witness ==
    /\ pc = "exit"
    /\ Len(tree) > 0
    /\ indexFile = FileWith(PreviousIndex)

\* ------------------------------------------------------------------ C12
\* Every candidate of the tree has been taken up by the loop.
EveryCandidateTakenUp ==
    \A i \in CandidatesInTree : \E h \in hist : h.file = tree[i]

\* C12: in a run with a candidate file index.json is written once: the write
\* comes after every asset was taken up, puts the collected entry list in the
\* place of the earlier manifest, and nothing is written after it; the entry
\* list only ever grows by an entry appended at its end.
C12_ManifestWrittenOnceAtEnd ==
    [][ /\ (indexFile' # indexFile) =>
              /\ indexFile = FileWith(PreviousIndex)
              /\ CandidatesInTree # {}
              /\ EveryCandidateTakenUp
              /\ indexFile' = FileWith(indexData)
        /\ (pc # "done" /\ pc' = "done") => indexFile' = FileWith(indexData')
        /\ (pc = "done") => (indexFile' = indexFile /\ indexData' = indexData)
        /\ (indexData' # indexData) =>
              /\ Len(indexData') = Len(indexData) + 1
              /\ SubSeq(indexData', 1, Len(indexData)) = indexData ]_vars

C12_Witness ==
    /\ pc = "done"
    /\ Len(indexData) = 2
    /\ indexFile = FileWith(indexData)

\* ------------------------------------------------------------------ C13
\* The extensions that are one allow-listed extension in some letter case.
ImageExtensions ==
    [jpg  |-> {".jpg", ".JPG"},
     jpeg |-> {".jpeg", ".JPEG"},
     png  |-> {".png", ".PNG", ".Png"},
     webp |-> {".webp", ".WEBP"},
     gif  |-> {".gif", ".GIF", ".Gif"}]

\* The extension of the classified file, as it is written.
WrittenExt == cFile[Len(cFile)]

\* C13: a file is a candidate exactly when its extension is, in some letter
\* case, one of jpg, jpeg, png, webp, gif; a candidate is animated exactly
\* when that extension is gif and static otherwise; every other file is left
\* out and nothing else happens to it.
C13_ClassificationByExtension ==
    (cClass.step \in {"globbed", "dispatched"}) =>
        /\ cClass.candidate =
              (\E k \in DOMAIN ImageExtensions : WrittenExt \in ImageExtensions[k])
        /\ (cClass.step = "dispatched") =>
              /\ (cClass.kind = "gifs") = (WrittenExt \in ImageExtensions.gif)
              /\ (cClass.branch = "ffmpeg") = (WrittenExt \in ImageExtensions.gif)

\* ------------------------------------------------------------------ C14
\* The asset an entry of YearItems was made from.
YearAssetOf(item) == CHOOSE a \in YearAssets : OriginalOf(a) = item.original

\* The year the file name of an asset states: its leading digits when they
\* are four and a '-', '_' or '.' comes right after them.
StatedYear(a) ==
    IF Len(a.digits) = 4 /\ a.mark \in {<<"-">>, <<"_">>, <<".">>}
    THEN a.digits
    ELSE JsNull

IsOfYear(year, item) == StatedYear(YearAssetOf(item)) = year

\* C14: the year menu offers "ALL" and the years that file names state by
\* four leading digits followed by '-', '_' or '.'; with a year selected
\* filteredItems is the items of allItems of that year, in the order of
\* allItems; with "ALL" selected it is allItems; an item whose name states
\* no year is shown under "ALL" only.
C14_YearFilter ==
    (page = "ready") =>
        /\ { yearOptions[i] : i \in DOMAIN yearOptions } =
              {ALL} \cup ({ StatedYear(YearAssetOf(allItems[i])) :
                              i \in DOMAIN allItems } \ {JsNull})
        /\ \A i \in DOMAIN allItems :
              yearFromItem(allItems[i]) = StatedYear(YearAssetOf(allItems[i]))
        /\ filteredItems =
              IF selectedYear = ALL
              THEN allItems
              ELSE SelectSeq(allItems, LAMBDA it : IsOfYear(selectedYear, it))

C14_Witness ==
    /\ page = "ready"
    /\ selectedYear # ALL
    /\ Len(allItems) = 2
    /\ Len(filteredItems) = 1
    /\ \E i \in DOMAIN allItems :
          /\ StatedYear(YearAssetOf(allItems[i])) = JsNull
          /\ Len(YearAssetOf(allItems[i]).digits) >= 3

\* ------------------------------------------------------------------ C15
\* The paths an entry gives under one of its objects.
PathsUnder(item, obj) ==
    IF obj \in DOMAIN item
    THEN { item[obj][k] : k \in DOMAIN item[obj] } \ {JsNull, Undefined}
    ELSE {}

\* What an element made for an entry may load: a thumbnail or optimized path
\* of the entry, or nothing; never the original.
MayLoad(item) ==
    ((PathsUnder(item, "thumbnail") \cup PathsUnder(item, "optimized"))
        \cup {<<>>}) \ {item.original}

\* The sources an element loads from: its src when it has one, and the
\* srcset of its <source> children.
LoadedBy(m) ==
    (IF m.src = Undefined THEN {} ELSE {m.src}) \cup
    { m.sources[k] : k \in DOMAIN m.sources }

\* C15: every <img>, <source> and <video> the gallery or the lightbox has
\* made for an entry loads a thumbnail or optimized path of that entry or
\* nothing, and never the original of the entry, also when the entry lacks
\* thumbnail or optimized fields.
C15_OriginalsNeverLoaded ==
    /\ Len(cards) = Len(filteredItems)
    /\ \A i \in DOMAIN cards :
          LoadedBy(cards[i].media) \subseteq MayLoad(filteredItems[i])
    /\ ~lightbox.hidden =>
          LoadedBy(lightbox.media) \subseteq MayLoad(lightbox.shown)

C15_Witness ==
    /\ ~lightbox.hidden
    /\ "optimized" \notin DOMAIN lightbox.shown
    /\ LoadedBy(lightbox.media) = {<<>>}
    /\ \E i \in DOMAIN cards :
          /\ cards[i].media.tag = "video"
          /\ Truthy(cards[i].media.src)
    /\ \E i \in DOMAIN cards : "thumbnail" \notin DOMAIN filteredItems[i]

\* ------------------------------------------------------------------ C16
\* How often ffmpeg was entered for one step of one asset.
CallCount(f, step) ==
    Cardinality({ k \in DOMAIN calls : calls[k] = Call(f, step) })

\* The loop has taken up the asset at position i of orderedFiles.
TakenUp(i) == i < idx \/ (i = idx /\ pc \notin {"loop", "done", "exit"})

CallPos(f, step) == CHOOSE k \in DOMAIN calls : calls[k] = Call(f, step)

\* C17: the thumbnail encode of an animated asset is entered at most once,
\* and only right after a full-rendition encode of that asset has succeeded,
\* so never for an asset whose original was copied; when the thumbnail encode
\* fails the asset has no manifest entry and no copy of the original is made.
C17_ThumbnailAfterEncodedFull ==
    \A f \in Range(orderedFiles) :
        /\ CallCount(f, "thumb") <= 1
        /\ CallCount(f, "thumb") = 1 =>
              /\ Succeeded(f, "vp9") \/ Succeeded(f, "vp8")
              /\ CallPos(f, "thumb") > 1
              /\ LET prev == calls[CallPos(f, "thumb") - 1]
                 IN  /\ prev.file = f
                     /\ prev.step \in {"vp9", "vp8"}
                     /\ Succeeded(f, prev.step)
              /\ ~Succeeded(f, "copy")
              /\ fallbackGif(f) \notin DOMAIN disk
        /\ Failed(f, "thumb") =>
              /\ EntriesOf(f) = {}
              /\ ~Succeeded(f, "copy")
              /\ fallbackGif(f) \notin DOMAIN disk

C17_Witness ==
    /\ pc = "done"
    /\ \E f \in Range(orderedFiles) :
            /\ Failed(f, "vp9") /\ Succeeded(f, "vp8")
            /\ Failed(f, "thumb")
            /\ optimizedWebM(f) \in DOMAIN disk

\* ------------------------------------------------------------------ C18
\* C18: whenever the lightbox is visible, currentIndex is an index of
\* filteredItems and the item the lightbox shows is filteredItems[currentIndex],
\* whatever cards were clicked, arrows pressed, years selected and however
\* often the lightbox was closed before.
C18_LightboxIndexInRange ==
    ~lightbox.hidden =>
        /\ 0 <= currentIndex
        /\ currentIndex < Len(filteredItems)
        /\ lightbox.shown = filteredItems[currentIndex + 1]

\* The part of C18 on the ends of the list: go at the first or the last item
\* leaves the lightbox, currentIndex and the item shown as they are.
C18_EndsLeaveLightboxAlone ==
    [][ \A delta \in {-1, 1} :
          (/\ go(delta)
           /\ (currentIndex + delta < 0 \/
                  currentIndex + delta >= Len(filteredItems)))
          => UNCHANGED <<lightbox, currentIndex>> ]_vars

\* ------------------------------------------------------------------ C19
\* C19: once every clipboard write has settled and every toast timer has
\* fired, the button shows "Copy URL" and is enabled, whatever clicks came
\* before, clicks made while an earlier write was still pending included.
C19_ButtonReturnsToCopyUrl ==
    (writes = 0 /\ Len(timers) = 0) => btn = FreshButton

\* ------------------------------------------------------------------ C20
\* After every handler class "modal-open" is set exactly when the lightbox
\* is visible, and so are the listeners of the lightbox.
ModalStateMatchesLightbox ==
    /\ modalOpen = ~lightbox.hidden
    /\ listeners = ~lightbox.hidden

\* A handler that hides the lightbox leaves the focus on the element that
\* had it when the lightbox came up, when that element is a control that is
\* still in the document.
CloseRestoresFocus ==
    (~lightbox.hidden /\ lightbox'.hidden /\ openedFrom \in {"yearBtn", "cardBtn"})
        => activeEl' = openedFrom

\* C20: after every handler "modal-open" is set and the lightbox listeners
\* are registered exactly when the lightbox is visible, and closing the
\* lightbox puts the focus back on the element that had it before the
\* lightbox was first opened, whatever openLightbox and go calls came in
\* between, openLightbox with an index that has no item included.
C20_ModalStateAndFocus ==
    [][ModalStateMatchesLightbox' /\ CloseRestoresFocus]_vars
====
